---- MODULE Spec2Model ----
(***************************************************************************)
(* Model of the print dispatcher of dancaldera/pos                         *)
(* (frontend/src-tauri/src/lib.rs, print_thermal_receipt).                 *)
(*                                                                         *)
(* Texts (Rust String values) are sequences of Unicode code points, byte   *)
(* streams (Vec<u8>) are sequences of integers in 0..255.  Every call of   *)
(* the command is one invocation c; the operating system keeps a process   *)
(* table indexed by pid.                                                   *)
(***************************************************************************)
EXTENDS Integers, Sequences, FiniteSets, TLC

VARIABLES
    pc,            \* pc[c]: position of invocation c in print_thermal_receipt
    receipt_data,  \* receipt_data[c]: the argument of invocation c
    command,       \* command[c]: the command string built at line 33
    child,         \* child[c]: pid of the process spawned by c, 0 when none
    spawnError,    \* spawnError[c]: the io::Error the spawn of c met, "none"
    output,        \* output[c]: the std::process::Output bound at line 37
    result,        \* result[c]: the Result<String, String> returned by c
    returned,      \* returned[c]: number of results c handed to its caller
    spawns,        \* spawns[c]: number of spawn attempts made by c
    reached,       \* reached[c]: the steps of lines 37-54 that c has executed
    procs,         \* procs[p]: the operating system's process table
    nextPid        \* next pid the operating system hands out

vars == <<pc, receipt_data, command, child, spawnError, output, result,
          returned, spawns, reached, procs, nextPid>>

----------------------------------------------------------------------------
(* Bounds of the model *)

\* longest receipt text of the escaping specification
MaxTextLen == 3
\* longest captured stdout / stderr of the single-call specification
MaxOutLen == 2
\* number of concurrent invocations of the concurrent specification
NumCalls == 2

----------------------------------------------------------------------------
(* Characters and fixed strings of the source *)

QUOTE == 39
BACKSLASH == 92
SPACE == 32

\* "'\\''" (line 30): quote, backslash, quote, quote
QUOTE_ESCAPE == <<QUOTE, BACKSLASH, QUOTE, QUOTE>>
\* "print print '" (line 33)
PRINT_PRINT == <<112, 114, 105, 110, 116, 32, 112, 114, 105, 110, 116, 32, 39>>
\* "Failed to execute command: " (line 43)
FAILED_TO_EXECUTE == <<70, 97, 105, 108, 101, 100, 32, 116, 111, 32, 101, 120,
    101, 99, 117, 116, 101, 32, 99, 111, 109, 109, 97, 110, 100, 58, 32>>
\* "Invalid UTF-8 in command output: " (line 48)
INVALID_UTF8_OUTPUT == <<73, 110, 118, 97, 108, 105, 100, 32, 85, 84, 70, 45,
    56, 32, 105, 110, 32, 99, 111, 109, 109, 97, 110, 100, 32, 111, 117, 116,
    112, 117, 116, 58, 32>>
\* "Invalid UTF-8 in error output: " (line 52)
INVALID_UTF8_ERROR == <<73, 110, 118, 97, 108, 105, 100, 32, 85, 84, 70, 45,
    56, 32, 105, 110, 32, 101, 114, 114, 111, 114, 32, 111, 117, 116, 112,
    117, 116, 58, 32>>
\* "Command failed: " (line 53)
COMMAND_FAILED == <<67, 111, 109, 109, 97, 110, 100, 32, 102, 97, 105, 108,
    101, 100, 58, 32>>

----------------------------------------------------------------------------
(* Input domains *)

\* all sequences over S of length at most n
SeqsUpTo(S, n) == UNION {[1..k -> S] : k \in 0..n}

\* characters of receipt texts: quote, backslash, space, a letter
TextChars == {QUOTE, BACKSLASH, SPACE, 97}
\* bytes a process writes: 'A', a continuation byte, an invalid lead byte,
\* a two-byte lead byte (0xC3 0xA9 is U+00E9)
OutBytes == {65, 169, 192, 195}
\* exit codes of the external process
ExitCodes == {0, 1}
\* io::Error kinds a spawn can meet
SpawnErrors == {"NotFound", "PermissionDenied"}

AllTexts == SeqsUpTo(TextChars, MaxTextLen)
AllStreams == SeqsUpTo(OutBytes, MaxOutLen)
\* "O'B" and the empty text
SampleTexts == {<<79, QUOTE, 66>>, <<>>}
\* "O'Brien's Cafe"
OBRIENS_CAFE == <<79, 39, 66, 114, 105, 101, 110, 39, 115, 32, 67, 97, 102, 101>>
EscTexts == AllTexts \cup {OBRIENS_CAFE}
\* U+00E9 encoded, and its lead byte alone
SampleStreams == {<<195, 169>>, <<195>>}

OneCall == {1}
Calls == 1..NumCalls

----------------------------------------------------------------------------
(* line 30: receipt_data.replace("'", "'\\''") *)

RECURSIVE ReplaceQuotes(_)
ReplaceQuotes(s) ==
    IF s = <<>> THEN <<>>
    ELSE (IF Head(s) = QUOTE THEN QUOTE_ESCAPE ELSE <<Head(s)>>)
         \o ReplaceQuotes(Tail(s))

\* the text embedded as it is
escaped_data_unescaped(text) == text

escaped_data(text) == ReplaceQuotes(text)

(* line 33: format!("print print '{}'", escaped_data) *)
FormatCommand(esc) == PRINT_PRINT \o esc \o <<QUOTE>>

----------------------------------------------------------------------------
(* lines 37-41: bash -c <command>.  The shell splits the command string    *)
(* into words: unquoted blanks separate words, a single quote opens a      *)
(* literal section that runs to the next single quote, an unquoted         *)
(* backslash makes the next character literal.  The state of the scan is  *)
(* the words finished so far, the word being built, whether a word is      *)
(* being built and whether the scan is inside single quotes.               *)

RECURSIVE ShellScan(_, _, _, _, _, _)
ShellScan(s, i, words, cur, inWord, inQuote) ==
    IF i > Len(s) THEN
        IF inQuote THEN [ok |-> FALSE, words |-> <<>>]
        ELSE [ok |-> TRUE,
              words |-> IF inWord THEN Append(words, cur) ELSE words]
    ELSE IF inQuote THEN
        IF s[i] = QUOTE THEN ShellScan(s, i + 1, words, cur, TRUE, FALSE)
        ELSE ShellScan(s, i + 1, words, Append(cur, s[i]), TRUE, TRUE)
    ELSE IF s[i] = QUOTE THEN ShellScan(s, i + 1, words, cur, TRUE, TRUE)
    ELSE IF s[i] = BACKSLASH THEN
        IF i = Len(s) THEN ShellScan(s, i + 1, words, cur, inWord, FALSE)
        ELSE ShellScan(s, i + 2, words, Append(cur, s[i + 1]), TRUE, FALSE)
    ELSE IF s[i] = SPACE THEN
        ShellScan(s, i + 1, IF inWord THEN Append(words, cur) ELSE words,
                  <<>>, FALSE, FALSE)
    ELSE ShellScan(s, i + 1, words, Append(cur, s[i]), TRUE, FALSE)

ShellWords(cmd) == ShellScan(cmd, 1, <<>>, <<>>, FALSE, FALSE)

----------------------------------------------------------------------------
(* lines 47, 51: String::from_utf8 *)

\* width of the UTF-8 sequence a first byte announces, 0 when it is no
\* first byte
Utf8CharWidth(b) ==
    IF b < 128 THEN 1
    ELSE IF b \in 194..223 THEN 2
    ELSE IF b \in 224..239 THEN 3
    ELSE IF b \in 240..244 THEN 4
    ELSE 0

IsCont(b) == b \in 128..191

\* the second byte of a sequence is restricted by the first
SecondOk(b0, b1) ==
    IF b0 = 224 THEN b1 \in 160..191
    ELSE IF b0 = 237 THEN b1 \in 128..159
    ELSE IF b0 = 240 THEN b1 \in 144..191
    ELSE IF b0 = 244 THEN b1 \in 128..143
    ELSE IsCont(b1)

SequenceOk(bs, i, w) ==
    /\ i + w - 1 <= Len(bs)
    /\ w >= 2 => SecondOk(bs[i], bs[i + 1])
    /\ \A k \in 2..(w - 1) : IsCont(bs[i + k])

CodePoint(bs, i, w) ==
    IF w = 1 THEN bs[i]
    ELSE IF w = 2 THEN (bs[i] % 32) * 64 + (bs[i + 1] % 64)
    ELSE IF w = 3 THEN (bs[i] % 16) * 4096 + (bs[i + 1] % 64) * 64
                       + (bs[i + 2] % 64)
    ELSE (bs[i] % 8) * 262144 + (bs[i + 1] % 64) * 4096
         + (bs[i + 2] % 64) * 64 + (bs[i + 3] % 64)

RECURSIVE Utf8Scan(_, _, _)
Utf8Scan(bs, i, chars) ==
    IF i > Len(bs) THEN [ok |-> TRUE, chars |-> chars, valid_up_to |-> Len(bs)]
    ELSE LET w == Utf8CharWidth(bs[i]) IN
         IF w = 0 \/ ~SequenceOk(bs, i, w)
         THEN [ok |-> FALSE, chars |-> <<>>, valid_up_to |-> i - 1]
         ELSE Utf8Scan(bs, i + w, Append(chars, CodePoint(bs, i, w)))

\* String::from_utf8_lossy: never fails, U+FFFD stands for a bad byte
RECURSIVE Utf8ScanLossy(_, _, _)
Utf8ScanLossy(bs, i, chars) ==
    IF i > Len(bs) THEN [ok |-> TRUE, chars |-> chars, valid_up_to |-> Len(bs)]
    ELSE LET w == Utf8CharWidth(bs[i]) IN
         IF w = 0 \/ ~SequenceOk(bs, i, w)
         THEN Utf8ScanLossy(bs, i + 1, Append(chars, 65533))
         ELSE Utf8ScanLossy(bs, i + w, Append(chars, CodePoint(bs, i, w)))

from_utf8_lossy(bs) == Utf8ScanLossy(bs, 1, <<>>)

from_utf8(bs) == Utf8Scan(bs, 1, <<>>)

\* Display of a FromUtf8Error, shortened to the digit of valid_up_to
Utf8ErrorText(e) == <<48 + e.valid_up_to>>

\* Display of an io::Error, shortened to the digits of its os error code
IoErrorText(e) == IF e = "NotFound" THEN <<50>> ELSE <<49, 51>>

----------------------------------------------------------------------------
(* Result<String, String> *)

NoResult == [tag |-> "None", text |-> <<>>]
Ok(text) == [tag |-> "Ok", text |-> text]
Err(text) == [tag |-> "Err", text |-> text]

NoOutput == [status |-> 0, stdout |-> <<>>, stderr |-> <<>>]
NoProc == [state |-> "none", words |-> [ok |-> TRUE, words |-> <<>>],
           status |-> 0, stdout |-> <<>>, stderr |-> <<>>]

\* output.status.success()
success(status) == status = 0

----------------------------------------------------------------------------
(* lines 45-54: the exit status selects the stream that is decoded *)

\* the steps of lines 45-54 executed for a captured output
FinishSteps(o) ==
    {"status", IF success(o.status) THEN "decode_stdout" ELSE "decode_stderr"}

\* the streams taken the wrong way round
DispatchResult_swapped(o) ==
    IF success(o.status) THEN
        LET stdout == from_utf8(o.stderr) IN
        IF stdout.ok THEN Ok(stdout.chars)
        ELSE Err(INVALID_UTF8_OUTPUT \o Utf8ErrorText(stdout))
    ELSE
        LET stderr == from_utf8(o.stdout) IN
        IF stderr.ok THEN Err(COMMAND_FAILED \o stderr.chars)
        ELSE Err(INVALID_UTF8_ERROR \o Utf8ErrorText(stderr))

\* the failure text without its "Command failed: " prefix
DispatchResult_verbatim(o) ==
    IF success(o.status) THEN
        LET stdout == from_utf8(o.stdout) IN
        IF stdout.ok THEN Ok(stdout.chars)
        ELSE Err(INVALID_UTF8_OUTPUT \o Utf8ErrorText(stdout))
    ELSE
        LET stderr == from_utf8(o.stderr) IN
        IF stderr.ok THEN Err(stderr.chars)
        ELSE Err(INVALID_UTF8_ERROR \o Utf8ErrorText(stderr))

\* both streams decoded before the status is looked at
DispatchResult_both(o) ==
    LET stdout == from_utf8(o.stdout)
        stderr == from_utf8(o.stderr) IN
    IF ~stdout.ok THEN Err(INVALID_UTF8_OUTPUT \o Utf8ErrorText(stdout))
    ELSE IF ~stderr.ok THEN Err(INVALID_UTF8_ERROR \o Utf8ErrorText(stderr))
    ELSE IF success(o.status) THEN Ok(stdout.chars)
    ELSE Err(COMMAND_FAILED \o stderr.chars)

DispatchResult(o) ==
    IF success(o.status) THEN
        LET stdout == from_utf8(o.stdout) IN
        IF stdout.ok THEN Ok(stdout.chars)
        ELSE Err(INVALID_UTF8_OUTPUT \o Utf8ErrorText(stdout))
    ELSE
        LET stderr == from_utf8(o.stderr) IN
        IF stderr.ok THEN Err(COMMAND_FAILED \o stderr.chars)
        ELSE Err(INVALID_UTF8_ERROR \o Utf8ErrorText(stderr))

----------------------------------------------------------------------------
(* State after construction: no invocation has been made, no process runs *)

InitFor(C) ==
    /\ pc = [c \in C |-> "idle"]
    /\ receipt_data = [c \in C |-> <<>>]
    /\ command = [c \in C |-> <<>>]
    /\ child = [c \in C |-> 0]
    /\ spawnError = [c \in C |-> "none"]
    /\ output = [c \in C |-> NoOutput]
    /\ result = [c \in C |-> NoResult]
    /\ returned = [c \in C |-> 0]
    /\ spawns = [c \in C |-> 0]
    /\ reached = [c \in C |-> {}]
    /\ procs = [p \in 1..Cardinality(C) |-> NoProc]
    /\ nextPid = 1

----------------------------------------------------------------------------
(* Steps of one invocation *)

\* line 28: the host invokes the command with a text from T
Invoke(c, T) ==
    /\ pc[c] = "idle"
    /\ \E text \in T : receipt_data' = [receipt_data EXCEPT ![c] = text]
    /\ pc' = [pc EXCEPT ![c] = "build"]
    /\ UNCHANGED <<command, child, spawnError, output, result, returned,
                   spawns, reached, procs, nextPid>>

\* lines 30-33: escape the text and build the command string
BuildCommand(c) ==
    /\ pc[c] = "build"
    /\ command' = [command EXCEPT
                     ![c] = FormatCommand(escaped_data(receipt_data[c]))]
    /\ pc' = [pc EXCEPT ![c] = "spawn"]
    /\ UNCHANGED <<receipt_data, child, spawnError, output, result, returned,
                   spawns, reached, procs, nextPid>>

\* a failed spawn that falls through to the status check with an empty output
Spawn_fallthrough(c) ==
    /\ pc[c] = "spawn"
    /\ spawns' = [spawns EXCEPT ![c] = @ + 1]
    /\ reached' = [reached EXCEPT ![c] = @ \cup {"spawn"}]
    /\ \/ /\ child' = [child EXCEPT ![c] = nextPid]
          /\ procs' = [procs EXCEPT ![nextPid] =
                         [NoProc EXCEPT !.state = "running",
                                        !.words = ShellWords(command[c])]]
          /\ nextPid' = nextPid + 1
          /\ pc' = [pc EXCEPT ![c] = "waiting"]
          /\ UNCHANGED spawnError
       \/ /\ \E e \in SpawnErrors :
                spawnError' = [spawnError EXCEPT ![c] = e]
          /\ pc' = [pc EXCEPT ![c] = "finish"]
          /\ UNCHANGED <<child, procs, nextPid>>
    /\ UNCHANGED <<receipt_data, command, output, result, returned>>

\* a failed spawn that is tried once more
Spawn_retry(c) ==
    /\ pc[c] = "spawn"
    /\ spawns' = [spawns EXCEPT ![c] = @ + 1]
    /\ reached' = [reached EXCEPT ![c] = @ \cup {"spawn"}]
    /\ \/ /\ child' = [child EXCEPT ![c] = nextPid]
          /\ procs' = [procs EXCEPT ![nextPid] =
                         [NoProc EXCEPT !.state = "running",
                                        !.words = ShellWords(command[c])]]
          /\ nextPid' = nextPid + 1
          /\ pc' = [pc EXCEPT ![c] = "waiting"]
          /\ UNCHANGED <<spawnError, result, returned>>
       \/ /\ spawns[c] = 0
          /\ UNCHANGED <<pc, child, procs, nextPid, spawnError, result,
                         returned>>
       \/ /\ spawns[c] > 0
          /\ \E e \in SpawnErrors :
                /\ spawnError' = [spawnError EXCEPT ![c] = e]
                /\ result' = [result EXCEPT
                     ![c] = Err(FAILED_TO_EXECUTE \o IoErrorText(e))]
          /\ returned' = [returned EXCEPT ![c] = @ + 1]
          /\ pc' = [pc EXCEPT ![c] = "done"]
          /\ UNCHANGED <<child, procs, nextPid>>
    /\ UNCHANGED <<receipt_data, command, output>>

\* lines 37-43: Command::new("bash")...output() starts the shell, or fails
\* and the ? operator returns the mapped error at once
Spawn(c) ==
    /\ pc[c] = "spawn"
    /\ spawns' = [spawns EXCEPT ![c] = @ + 1]
    /\ reached' = [reached EXCEPT ![c] = @ \cup {"spawn"}]
    /\ \/ /\ child' = [child EXCEPT ![c] = nextPid]
          /\ procs' = [procs EXCEPT ![nextPid] =
                         [NoProc EXCEPT !.state = "running",
                                        !.words = ShellWords(command[c])]]
          /\ nextPid' = nextPid + 1
          /\ pc' = [pc EXCEPT ![c] = "waiting"]
          /\ UNCHANGED <<spawnError, result, returned>>
       \/ /\ \E e \in SpawnErrors :
                /\ spawnError' = [spawnError EXCEPT ![c] = e]
                /\ result' = [result EXCEPT
                     ![c] = Err(FAILED_TO_EXECUTE \o IoErrorText(e))]
          /\ returned' = [returned EXCEPT ![c] = @ + 1]
          /\ pc' = [pc EXCEPT ![c] = "done"]
          /\ UNCHANGED <<child, procs, nextPid>>
    /\ UNCHANGED <<receipt_data, command, output>>

\* the external process p ends on its own, with an exit code and streams
\* from S; a shell that cannot parse its command exits with a failure code
ProcExit(p, S) ==
    /\ procs[p].state = "running"
    /\ \E st \in ExitCodes, so \in S, se \in S :
          /\ ~procs[p].words.ok => st # 0
          /\ procs' = [procs EXCEPT ![p] =
                         [@ EXCEPT !.state = "exited", !.status = st,
                                   !.stdout = so, !.stderr = se]]
    /\ UNCHANGED <<pc, receipt_data, command, child, spawnError, output,
                   result, returned, spawns, reached, nextPid>>

\* a wait that gives up while the child still runs
OutputReturns_timeout(c) ==
    /\ pc[c] = "waiting"
    /\ output' = [output EXCEPT ![c] =
                    [status |-> procs[child[c]].status,
                     stdout |-> procs[child[c]].stdout,
                     stderr |-> procs[child[c]].stderr]]
    /\ pc' = [pc EXCEPT ![c] = "finish"]
    /\ UNCHANGED <<receipt_data, command, child, spawnError, result, returned,
                   spawns, reached, procs, nextPid>>

\* a capture buffer shared by all invocations: the latest process's output
OutputReturns_shared(c) ==
    /\ pc[c] = "waiting"
    /\ procs[child[c]].state = "exited"
    /\ output' = [output EXCEPT ![c] =
                    [status |-> procs[nextPid - 1].status,
                     stdout |-> procs[nextPid - 1].stdout,
                     stderr |-> procs[nextPid - 1].stderr]]
    /\ pc' = [pc EXCEPT ![c] = "finish"]
    /\ UNCHANGED <<receipt_data, command, child, spawnError, result, returned,
                   spawns, reached, procs, nextPid>>

\* line 42: output() returns once the child has exited, with its exit
\* status and everything it wrote
OutputReturns(c) ==
    /\ pc[c] = "waiting"
    /\ procs[child[c]].state = "exited"
    /\ output' = [output EXCEPT ![c] =
                    [status |-> procs[child[c]].status,
                     stdout |-> procs[child[c]].stdout,
                     stderr |-> procs[child[c]].stderr]]
    /\ pc' = [pc EXCEPT ![c] = "finish"]
    /\ UNCHANGED <<receipt_data, command, child, spawnError, result, returned,
                   spawns, reached, procs, nextPid>>

\* a decoding error that panics (unwrap) instead of being returned
Finish_unwrap(c) ==
    /\ pc[c] = "finish"
    /\ reached' = [reached EXCEPT ![c] = @ \cup FinishSteps(output[c])]
    /\ IF from_utf8(IF success(output[c].status) THEN output[c].stdout
                    ELSE output[c].stderr).ok
       THEN /\ result' = [result EXCEPT ![c] = DispatchResult(output[c])]
            /\ returned' = [returned EXCEPT ![c] = @ + 1]
            /\ pc' = [pc EXCEPT ![c] = "done"]
       ELSE /\ pc' = [pc EXCEPT ![c] = "panicked"]
            /\ UNCHANGED <<result, returned>>
    /\ UNCHANGED <<receipt_data, command, child, spawnError, output, spawns,
                   procs, nextPid>>

\* lines 45-54: check the status, decode the selected stream, return
Finish(c) ==
    /\ pc[c] = "finish"
    /\ reached' = [reached EXCEPT ![c] = @ \cup FinishSteps(output[c])]
    /\ result' = [result EXCEPT ![c] = DispatchResult(output[c])]
    /\ returned' = [returned EXCEPT ![c] = @ + 1]
    /\ pc' = [pc EXCEPT ![c] = "done"]
    /\ UNCHANGED <<receipt_data, command, child, spawnError, output, spawns,
                   procs, nextPid>>

----------------------------------------------------------------------------
(* Specifications *)

\* one invocation, every captured stream up to MaxOutLen bytes
Init == InitFor(OneCall)

Next ==
    \/ \E c \in OneCall : Invoke(c, SampleTexts)
    \/ \E c \in OneCall : BuildCommand(c)
    \/ \E c \in OneCall : Spawn(c)
    \/ \E p \in OneCall : ProcExit(p, AllStreams)
    \/ \E c \in OneCall : OutputReturns(c)
    \/ \E c \in OneCall : Finish(c)

Spec == Init /\ [][Next]_vars

\* the steps of the invocation itself are taken when they can be; the
\* external process is under no obligation to exit
FairSpec ==
    /\ Spec
    /\ \A c \in OneCall :
          /\ WF_vars(BuildCommand(c))
          /\ WF_vars(Spawn(c))
          /\ WF_vars(OutputReturns(c))
          /\ WF_vars(Finish(c))

\* one invocation, every receipt text up to MaxTextLen characters
NextEsc ==
    \/ \E c \in OneCall : Invoke(c, EscTexts)
    \/ \E c \in OneCall : BuildCommand(c)
    \/ \E c \in OneCall : Spawn(c)
    \/ \E p \in OneCall : ProcExit(p, SampleStreams)
    \/ \E c \in OneCall : OutputReturns(c)
    \/ \E c \in OneCall : Finish(c)

SpecEsc == Init /\ [][NextEsc]_vars

\* NumCalls invocations running concurrently
InitConc == InitFor(Calls)

NextConc ==
    \/ \E c \in Calls : Invoke(c, SampleTexts)
    \/ \E c \in Calls : BuildCommand(c)
    \/ \E c \in Calls : Spawn(c)
    \/ \E p \in Calls : ProcExit(p, SampleStreams)
    \/ \E c \in Calls : OutputReturns(c)
    \/ \E c \in Calls : Finish(c)

SpecConc == InitConc /\ [][NextConc]_vars

----------------------------------------------------------------------------
(* Vocabulary of the properties *)

\* UTF-8 encoding of one code point and of a text
Utf8EncodeChar(cp) ==
    IF cp < 128 THEN <<cp>>
    ELSE IF cp < 2048 THEN <<192 + (cp \div 64), 128 + (cp % 64)>>
    ELSE IF cp < 65536 THEN
        <<224 + (cp \div 4096), 128 + ((cp \div 64) % 64), 128 + (cp % 64)>>
    ELSE <<240 + (cp \div 262144), 128 + ((cp \div 4096) % 64),
           128 + ((cp \div 64) % 64), 128 + (cp % 64)>>

RECURSIVE Utf8Encode(_)
Utf8Encode(text) ==
    IF text = <<>> THEN <<>>
    ELSE Utf8EncodeChar(Head(text)) \o Utf8Encode(Tail(text))

\* the code points whose encoding is written with bytes of OutBytes alone
\* (OutBytes holds no first byte of a three- or four-byte sequence)
OutChars ==
    {cp \in 0..2047 :
        \A k \in 1..Len(Utf8EncodeChar(cp)) : Utf8EncodeChar(cp)[k] \in OutBytes}

\* the texts whose encoding is the byte stream bs: one text when bs is
\* valid text, none when it is not
TextsOf(bs) == {t \in SeqsUpTo(OutChars, Len(bs)) : Utf8Encode(t) = bs}

IsText(bs) == TextsOf(bs) # {}

Invocations == DOMAIN pc

\* invocation c has spawned its process
Spawned(c) == child[c] # 0

\* the process of invocation c
Proc(c) == procs[child[c]]

\* invocation c has returned and its process ended as the environment chose
Completed(c) == pc[c] = "done" /\ Spawned(c)

\* the stream the exit status selects
Selected(c) == IF success(Proc(c).status) THEN Proc(c).stdout ELSE Proc(c).stderr

\* "print"
PRINT == <<112, 114, 105, 110, 116>>

----------------------------------------------------------------------------
(* Properties *)

\* C1: for every receipt text, the words the shell reads from the command
\* built at lines 30-33 are print, print and the original text, so the
\* single-quoted argument parses back to the text; O'Brien's Cafe is
\* embedded as O'\''Brien'\''s Cafe.
C1_EscapeRoundTrip ==
    \A c \in Invocations :
        /\ Spawned(c) =>
              Proc(c).words =
                  [ok |-> TRUE, words |-> <<PRINT, PRINT, receipt_data[c]>>]
        /\ (pc[c] \notin {"idle", "build"} /\ receipt_data[c] = OBRIENS_CAFE) =>
              command[c] = PRINT_PRINT
                  \o <<79, 39, 92, 39, 39, 66, 114, 105, 101, 110, 39, 92, 39,
                       39, 115, 32, 67, 97, 102, 101>>
                  \o <<QUOTE>>

C1_Witness ==
    \E c \in Invocations :
        /\ Spawned(c)
        /\ receipt_data[c] = OBRIENS_CAFE
        /\ Proc(c).words.ok
        /\ Proc(c).words.words[3] = OBRIENS_CAFE

\* C2: when the process exits with success and its stdout is the encoding
\* of a text, the call returns Ok of exactly that text; empty stdout gives
\* Ok("").
C2_SuccessRelaysStdout ==
    \A c \in Invocations :
        (Completed(c) /\ success(Proc(c).status)) =>
            \A t \in TextsOf(Proc(c).stdout) : result[c] = Ok(t)

C2_Witness ==
    \E c \in Invocations :
        /\ Completed(c)
        /\ success(Proc(c).status)
        /\ Proc(c).stdout = <<195, 169>>
        /\ result[c] = Ok(<<233>>)

C4_UndecodableStdoutFails ==
    \A c \in Invocations :
        (Completed(c) /\ success(Proc(c).status) /\ ~IsText(Proc(c).stdout)) =>
            /\ result[c].tag = "Err"
            /\ SubSeq(result[c].text, 1, Len(INVALID_UTF8_OUTPUT))
                   = INVALID_UTF8_OUTPUT

C4_Witness ==
    \E c \in Invocations :
        /\ Completed(c)
        /\ success(Proc(c).status)
        /\ Proc(c).stdout = <<65, 195>>
        /\ result[c].tag = "Err"

\* C5: when the process cannot be spawned, the call has returned an Err
\* describing the spawn error in the spawn step itself, and neither the
\* status check nor a decoding step is ever executed.
C5_SpawnErrorReturnsAtOnce ==
    \A c \in Invocations :
        spawnError[c] # "none" =>
            /\ pc[c] = "done"
            /\ result[c] = Err(FAILED_TO_EXECUTE \o IoErrorText(spawnError[c]))
            /\ reached[c] = {"spawn"}
            /\ ~Spawned(c)

C5_Witness ==
    \E c \in Invocations :
        /\ spawnError[c] = "NotFound"
        /\ pc[c] = "done"
        /\ result[c].tag = "Err"

\* C6: every call makes exactly one spawn attempt: none before the spawn
\* step, one from then on whatever the outcome, never a second one.
C6_ExactlyOneSpawn ==
    \A c \in Invocations :
        /\ pc[c] \in {"idle", "build", "spawn"} => spawns[c] = 0
        /\ pc[c] \notin {"idle", "build", "spawn"} => spawns[c] = 1
        /\ Cardinality({p \in DOMAIN procs : procs[p].state # "none"})
               = Cardinality({d \in Invocations : Spawned(d)})

C6_Witness ==
    \E c \in Invocations :
        /\ pc[c] = "done"
        /\ spawnError[c] # "none"
        /\ spawns[c] = 1

\* C7: a call holds a result only once the process it spawned has exited,
\* and a step that leaves that process running leaves the call waiting
\* without a result: there is no timeout and no cancellation.
C7_BlocksUntilExit ==
    /\ [](\A c \in Invocations :
            (Spawned(c) /\ (result[c] # NoResult \/ pc[c] \in {"finish", "done"}))
                => Proc(c).state = "exited")
    /\ [][\A c \in Invocations :
            (Spawned(c) /\ Proc(c).state = "running"
                        /\ procs'[child[c]].state = "running")
                => (pc'[c] = "waiting" /\ result'[c] = NoResult)]_vars

C7_Witness ==
    \E c \in Invocations :
        /\ Completed(c)
        /\ Proc(c).state = "exited"
        /\ result[c] # NoResult

\* the result of print_thermal_receipt run on its own, for a spawn outcome,
\* an exit status and the two streams of its process
RunAlone(spawnErr, status, stdout, stderr) ==
    IF spawnErr # "none" THEN Err(FAILED_TO_EXECUTE \o IoErrorText(spawnErr))
    ELSE DispatchResult([status |-> status, stdout |-> stdout,
                         stderr |-> stderr])

\* the per-invocation state of d
Locals(d) ==
    <<pc[d], receipt_data[d], command[d], child[d], spawnError[d], output[d],
      result[d], returned[d], spawns[d], reached[d]>>

\* C8: under every interleaving, two calls never have the same process, a
\* step of one call changes no state of another call nor another call's
\* process, and the result of a call is the result it gives when run alone
\* with its own spawn outcome and its own process's exit status and output.
C8_CallsIndependent ==
    /\ [](\A c \in Invocations :
            /\ \A d \in Invocations \ {c} :
                  (Spawned(c) /\ Spawned(d)) => child[c] # child[d]
            /\ pc[c] = "done" =>
                  result[c] =
                      IF Spawned(c)
                      THEN RunAlone("none", Proc(c).status, Proc(c).stdout,
                                    Proc(c).stderr)
                      ELSE RunAlone(spawnError[c], 0, <<>>, <<>>))
    /\ [][\A c \in Invocations :
            pc'[c] # pc[c] =>
                \A d \in Invocations \ {c} :
                    /\ Locals(d)' = Locals(d)
                    /\ Spawned(d) => procs'[child[d]] = procs[child[d]]]_vars

C8_Witness ==
    \E c \in Invocations, d \in Invocations :
        /\ c # d
        /\ Completed(c) /\ Completed(d)
        /\ child[c] > child[d]
        /\ result[c].tag = "Ok"
        /\ result[d].tag = "Err"

\* C9: every call whose process has exited or whose spawn failed comes to
\* hold exactly one result, an Ok or an Err; no call ever hands out two;
\* and a spawn error, a failure exit status and an undecodable selected
\* stream each end in an Err.
C9_AlwaysReturns ==
    /\ \A c \in OneCall :
          ((Spawned(c) /\ Proc(c).state = "exited") \/ spawnError[c] # "none")
              ~> (pc[c] = "done" /\ returned[c] = 1
                                 /\ result[c].tag \in {"Ok", "Err"})
    /\ [](\A c \in Invocations :
            /\ returned[c] <= 1
            /\ pc[c] = "done" => returned[c] = 1
            /\ (pc[c] = "done" /\ ~Spawned(c)) => result[c].tag = "Err"
            /\ (Completed(c) /\ (~success(Proc(c).status) \/ ~IsText(Selected(c))))
                   => result[c].tag = "Err")

C9_Witness ==
    \E c \in Invocations :
        /\ Completed(c)
        /\ ~success(Proc(c).status)
        /\ ~IsText(Proc(c).stderr)
        /\ returned[c] = 1
        /\ result[c].tag = "Err"

\* C10: two calls whose processes end with the same exit status and the
\* same selected stream return the same result, whatever the other stream
\* holds, and the only stream a call decodes is the selected one.
C10_OnlySelectedStreamMatters ==
    \A c \in Invocations :
        /\ (pc[c] = "done" /\ Spawned(c)) =>
              reached[c] =
                  {"spawn", "status",
                   IF success(Proc(c).status) THEN "decode_stdout"
                   ELSE "decode_stderr"}
        /\ \A d \in Invocations :
              (Completed(c) /\ Completed(d)
                  /\ success(Proc(c).status) = success(Proc(d).status)
                  /\ Selected(c) = Selected(d))
              => result[c] = result[d]

C10_Witness ==
    \E c \in Invocations, d \in Invocations :
        /\ Completed(c) /\ Completed(d)
        /\ success(Proc(c).status) /\ success(Proc(d).status)
        /\ Proc(c).stdout = Proc(d).stdout
        /\ IsText(Proc(c).stderr) /\ ~IsText(Proc(d).stderr)
        /\ result[c] = result[d]

====
